---- MODULE Spec2Model ----
(***************************************************************************)
(* Model of src/main.rs of Intelligent-Compiler: the per-node pipeline     *)
(* (Compiler::compile_node and its stages) and the project directory       *)
(* transpiler (transpile_project::walk).                                   *)
(*                                                                         *)
(* Text is a sequence of one-character strings, so that extension parsing, *)
(* lower-casing, formatting and Debug escaping are computed, not assumed.  *)
(* A path is a sequence of components, each component a text.              *)
(***************************************************************************)
EXTENDS Integers, Sequences, FiniteSets, TLC

VARIABLES
    \* ---- transpile_project ----
    lang,        \* target language argument
    outDir,      \* out_dir argument (a path)
    srcTree,     \* the file system as it was before the call: [dirs, files]
    dirs,        \* file system: set of existing directory paths
    files,       \* file system: function from file path to content
    stack,       \* call stack of walk: frames [src, out, todo]
    pc,          \* "start" | "walk" | "done" | "panic"
    walked,      \* set of directories walk() has been called on
    nWalks,      \* number of calls of walk()
    calls,       \* set of oracle calls made by walk: [file, prompt, answer]
    nCalls,      \* number of oracle calls made by walk
    written,     \* set of successful fs::write calls: [path, content, from]
    created,     \* set of directories create_dir_all really created
    faultBudget, \* number of file-system failures the environment may still cause
    faultLog,    \* the failures it caused: set of [op, path]
    \* ---- Compiler::compile_node ----
    node,        \* the node argument
    clang,       \* the lang argument
    api_key,     \* RealLLM.api_key
    cpc,         \* "infer" | "analyze" | "generate" | "refine" | "security" | "format" | "returned"
    ver, sem, base, refined, sec,   \* locals of compile_node
    llmCalls,    \* sequence of oracle calls made by compile_node: [stage, prompt, answer]
    stages,      \* sequence of stages already run
    report       \* the returned report (rendered placeholders of format!)

tvars == <<lang, outDir, srcTree, dirs, files, stack, pc, walked, nWalks, calls,
           nCalls, written, created, faultBudget, faultLog>>
cvars == <<node, clang, api_key, cpc, ver, sem, base, refined, sec,
           llmCalls, stages, report>>
vars == <<tvars, cvars>>

\* ------------------------------------------------------------------------
\* Bounds
\* ------------------------------------------------------------------------
\* largest number of entries (files and directories) in a source tree
MaxNodes == 3
\* longest path (in components) the file system accepts (ENAMETOOLONG beyond)
MaxPathLen == 4
\* number of environment failures injected in one run
MaxFaults == 1

\* ------------------------------------------------------------------------
\* Text helpers
\* ------------------------------------------------------------------------
Last(s) == s[Len(s)]

IsPrefix(p, s) == Len(p) <= Len(s) /\ SubSeq(s, 1, Len(p)) = p

IsSuffix(p, s) == Len(p) <= Len(s) /\ SubSeq(s, Len(s) - Len(p) + 1, Len(s)) = p

IsInfix(p, s) ==
    \E i \in 0..(Len(s) - Len(p)) : SubSeq(s, i + 1, i + Len(p)) = p

UpperChars == <<"A","B","C","D","E","F","G","H","I","J","K","L","M",
                "N","O","P","Q","R","S","T","U","V","W","X","Y","Z">>
LowerChars == <<"a","b","c","d","e","f","g","h","i","j","k","l","m",
                "n","o","p","q","r","s","t","u","v","w","x","y","z">>

\* str::to_lowercase, one character
LowerChar(c) ==
    IF \E i \in 1..26 : UpperChars[i] = c
    THEN LowerChars[CHOOSE i \in 1..26 : UpperChars[i] = c]
    ELSE c

to_lowercase(s) == [i \in 1..Len(s) |-> LowerChar(s[i])]

\* ------------------------------------------------------------------------
\* Names used in the source trees
\* ------------------------------------------------------------------------
Go    == <<"g","o">>
Cpp   == <<"c","p","p">>
Swift == <<"s","w","i","f","t">>
Rust  == <<"r","u","s","t">>
Python == <<"p","y","t","h","o","n">>
Zig   == <<"z","i","g">>

SrcName   == <<"s","r","c">>
OutName   == <<"o","u","t">>
DotGit    == <<".","g","i","t">>
XDotGit   == <<"x",".","g","i","t">>
ARs       == <<"a",".","r","s">>
BRS       == <<"B",".","R","S">>
NMd       == <<"n",".","m","d">>
DotRs     == <<".","r","s">>
ARsGo     == <<"a",".","r","s",".","g","o">>

src_dir == <<SrcName>>

\* ------------------------------------------------------------------------
\* Path predicates of the directory transpiler
\* ------------------------------------------------------------------------
skip_list == { <<".","g","i","t">>,
               <<"t","a","r","g","e","t">>,
               <<"b","u","i","l","d">>,
               <<"n","o","d","e","_","m","o","d","u","l","e","s">>,
               <<"_","_","p","y","c","a","c","h","e","_","_">>,
               <<".","i","d","e","a">>,
               <<".","v","s","c","o","d","e">> }

\* Path::ends_with(child): the components of child are a suffix of the
\* components of path (whole components, never part of one)
ends_with(path, child) == IsSuffix(child, path)

should_skip_dir_whole(path) == \E name \in skip_list : path = <<name>>

should_skip_dir(path) == \E name \in skip_list : ends_with(path, <<name>>)

\* index of the last "." of a file name, 0 if there is none
LastDot(name) ==
    IF \E i \in 1..Len(name) : name[i] = "."
    THEN CHOOSE i \in 1..Len(name) :
            name[i] = "." /\ \A j \in (i+1)..Len(name) : name[j] # "."
    ELSE 0

\* Path::extension: None without a ".", None when the only "." starts the
\* name, otherwise the text after the last "."
HasExtension(path) == LastDot(Last(path)) > 1

extension(path) ==
    SubSeq(Last(path), LastDot(Last(path)) + 1, Len(Last(path)))

ConvertibleExts == { <<"r","s">>, <<"c","p","p">>, <<"h">>, <<"c">>,
                     <<"p","y">>, <<"g","o">>, <<"t","s">>, <<"j","s">>,
                     <<"s","w","i","f","t">> }

is_convertible_file(path) ==
    IF HasExtension(path)
    THEN to_lowercase(extension(path)) \in ConvertibleExts
    ELSE FALSE

mapped_ext(l) ==
    CASE l = Go     -> <<"g","o">>
      [] l = Cpp    -> <<"c","p","p">>
      [] l = Swift  -> <<"s","w","i","f","t">>
      [] l = Rust   -> <<"r","s">>
      [] l = Python -> <<"p","y">>
      [] OTHER      -> <<"t","x","t">>

\* format!("{}.{}", file_name, mapped_ext(lang))
newname(path, l) == Last(path) \o <<".">> \o mapped_ext(l)

\* format!("Transpile fully into {} code:\n{}", lang, content)
TranspilePrompt(l, content) ==
    <<"T","r","a","n","s","p","i","l","e"," ","f","u","l","l","y"," ",
      "i","n","t","o"," ">> \o l \o <<" ","c","o","d","e",":","\n">> \o content

\* ------------------------------------------------------------------------
\* The file system
\* ------------------------------------------------------------------------
Prefixes(path) == { SubSeq(path, 1, k) : k \in 1..Len(path) }

Parent(path) == SubSeq(path, 1, Len(path) - 1)

\* out.join(name)
join(path, name) == path \o <<name>>

\* the entries read_dir(path) yields on file system (D, F)
Children(path, D, F) ==
    { q \in D \cup DOMAIN F : Len(q) = Len(path) + 1 /\ IsPrefix(path, q) }

\* fs::create_dir_all(path) can succeed: the path is not too long and no
\* component of it is an existing file
CanCreateDirAll(path, F) ==
    Len(path) <= MaxPathLen /\ Prefixes(path) \cap DOMAIN F = {}

\* fs::write(path, _) can succeed: the parent directory exists and the path
\* is not a directory
CanWrite(path, D) ==
    Len(path) <= MaxPathLen /\ Parent(path) \in D /\ path \notin D

WriteFile(F, path, content) ==
    [q \in DOMAIN F \cup {path} |-> IF q = path THEN content ELSE F[q]]

\* the text of a source file: a comment naming the file
FileText(path) == <<"/","/"," ">> \o Last(path)

\* ------------------------------------------------------------------------
\* Inputs of transpile_project
\* ------------------------------------------------------------------------
Langs == { Go, Zig }

OutDirs == { <<OutName>>, <<SrcName, OutName>> }

\* an out_dir inside src_dir is itself part of what the walk reads, with
\* everything written below it: it counts as two entries of the tree
OutCost(out) == IF IsPrefix(src_dir, out) THEN 2 ELSE 0

\* the oracle behind llm.predict: an unknown function of the prompt, so its
\* answer is a text that identifies the prompt it was given
predict(prompt) == <<"r","(">> \o prompt \o <<")">>

\* candidate entries of a source tree, relative to src_dir
CandDirs == { <<DotGit>>, <<XDotGit>>, <<ARsGo>>,
              <<XDotGit, DotGit>>, <<XDotGit, XDotGit>> }

CandFiles == { <<ARs>>, <<NMd>>, <<BRS>>, <<DotRs>>,
               <<DotGit, ARs>>, <<XDotGit, ARs>>, <<ARsGo, ARs>>,
               <<XDotGit, DotGit, ARs>> }

\* a source tree: at most MaxNodes entries, each inside a directory of the tree
Trees ==
    { T \in SUBSET (CandDirs \cup CandFiles) :
        /\ Cardinality(T) <= MaxNodes
        /\ \A p \in T : Len(p) > 1 => Parent(p) \in T \cap CandDirs }

TInit ==
    /\ lang \in Langs
    /\ outDir \in OutDirs
    /\ \E T \in Trees :
         /\ Cardinality(T) + OutCost(outDir) <= MaxNodes
         /\ dirs = {src_dir} \cup { src_dir \o p : p \in T \cap CandDirs }
         /\ files = [q \in { src_dir \o p : p \in T \cap CandFiles } |-> FileText(q)]
    /\ srcTree = [dirs |-> dirs, files |-> files]
    /\ stack = <<>>
    /\ pc = "start"
    /\ walked = {}
    /\ nWalks = 0
    /\ calls = {}
    /\ nCalls = 0
    /\ written = {}
    /\ created = {}
    /\ faultBudget \in 0..MaxFaults
    /\ faultLog = {}

\* ------------------------------------------------------------------------
\* transpile_project
\* ------------------------------------------------------------------------
Top == stack[Len(stack)]

Count(b) == IF b THEN 1 ELSE 0

Panic ==
    /\ pc' = "panic"
    /\ stack' = <<>>

\* the environment makes n file-system operations fail, recorded in log
Inject(n, log) ==
    /\ n <= faultBudget
    /\ faultBudget' = faultBudget - n
    /\ faultLog' = faultLog \cup log

\* fs::create_dir_all(out_dir).unwrap(); walk(src_dir, out_dir): read_dir(src).unwrap()
Start ==
    /\ pc = "start"
    /\ \E cf \in BOOLEAN, rf \in BOOLEAN :
         LET made == CanCreateDirAll(outDir, files) /\ ~cf
             D1   == IF made THEN dirs \cup Prefixes(outDir) ELSE dirs
         IN  /\ Inject(Count(cf) + Count(rf),
                       (IF cf THEN {[op |-> "create_dir_all", path |-> outDir]} ELSE {})
                       \cup (IF rf THEN {[op |-> "read_dir", path |-> src_dir]} ELSE {}))
             /\ cf => ~rf
             /\ dirs' = D1
             /\ created' = created \cup (D1 \ dirs)
             /\ IF ~made \/ rf
                THEN Panic /\ UNCHANGED <<walked, nWalks>>
                ELSE /\ pc' = "walk"
                     /\ walked' = walked \cup {src_dir}
                     /\ nWalks' = nWalks + 1
                     /\ stack' = <<[src |-> src_dir, out |-> outDir,
                                    todo |-> Children(src_dir, D1, files)]>>
    /\ UNCHANGED <<lang, outDir, srcTree, files, calls, nCalls, written>>

\* the frame on top of the stack with entry e taken off its iterator
Taken(e) == [Top EXCEPT !.todo = @ \ {e}]

\* entry.unwrap() on a directory entry the iterator failed to read
EntryError ==
    /\ pc = "walk"
    /\ \E e \in Top.todo :
         Inject(1, {[op |-> "read_dir entry", path |-> e]})
    /\ Panic
    /\ UNCHANGED <<lang, outDir, srcTree, dirs, files, walked, nWalks, calls, nCalls,
                   written, created>>

\* path.is_dir() && should_skip_dir(&path): continue
SkipDir ==
    /\ pc = "walk"
    /\ \E e \in Top.todo :
         /\ e \in dirs
         /\ should_skip_dir(e)
         /\ stack' = [stack EXCEPT ![Len(stack)] = Taken(e)]
    /\ UNCHANGED <<lang, outDir, srcTree, dirs, files, pc, walked, nWalks, calls, nCalls,
                   written, created, faultBudget, faultLog>>

\* path.is_dir(): create_dir_all(&next).unwrap_or(()); walk(&path, &next)
DescendDir ==
    /\ pc = "walk"
    /\ \E e \in Top.todo, cf \in BOOLEAN, rf \in BOOLEAN :
         LET next == join(Top.out, Last(e))
             made == CanCreateDirAll(next, files) /\ ~cf
             D1   == IF made THEN dirs \cup Prefixes(next) ELSE dirs
         IN  /\ e \in dirs
             /\ ~should_skip_dir(e)
             /\ Inject(Count(cf) + Count(rf),
                       (IF cf THEN {[op |-> "create_dir_all", path |-> next]} ELSE {})
                       \cup (IF rf THEN {[op |-> "read_dir", path |-> e]} ELSE {}))
             /\ dirs' = D1
             /\ created' = created \cup (D1 \ dirs)
             /\ IF rf
                THEN Panic /\ UNCHANGED <<walked, nWalks>>
                ELSE /\ pc' = "walk"
                     /\ walked' = walked \cup {e}
                     /\ nWalks' = nWalks + 1
                     /\ stack' = Append([stack EXCEPT ![Len(stack)] = Taken(e)],
                                        [src |-> e, out |-> next,
                                         todo |-> Children(e, D1, files)])
    /\ UNCHANGED <<lang, outDir, srcTree, files, calls, nCalls, written>>

\* path.is_file() && !is_convertible_file(&path): continue
IgnoreFile ==
    /\ pc = "walk"
    /\ \E e \in Top.todo :
         /\ e \in DOMAIN files
         /\ ~is_convertible_file(e)
         /\ stack' = [stack EXCEPT ![Len(stack)] = Taken(e)]
    /\ UNCHANGED <<lang, outDir, srcTree, dirs, files, pc, walked, nWalks, calls, nCalls,
                   written, created, faultBudget, faultLog>>

\* path.is_file(): read_to_string(..).unwrap_or_default(); llm.predict(..);
\* fs::write(out.join(newname), code).unwrap_or(())
ConvertFile ==
    /\ pc = "walk"
    /\ \E e \in Top.todo, rf \in BOOLEAN, wf \in BOOLEAN :
         LET content == IF rf THEN <<>> ELSE files[e]
             prompt  == TranspilePrompt(lang, content)
             code    == predict(prompt)
             target  == join(Top.out, newname(e, lang))
             wrote   == CanWrite(target, dirs) /\ ~wf
         IN  /\ e \in DOMAIN files
             /\ is_convertible_file(e)
             /\ Inject(Count(rf) + Count(wf),
                       (IF rf THEN {[op |-> "read_to_string", path |-> e]} ELSE {})
                       \cup (IF wf THEN {[op |-> "write", path |-> target]} ELSE {}))
             /\ calls' = calls \cup {[file |-> e, prompt |-> prompt, answer |-> code]}
             /\ nCalls' = nCalls + 1
             /\ files' = IF wrote THEN WriteFile(files, target, code) ELSE files
             /\ written' = IF wrote
                           THEN written \cup {[path |-> target, content |-> code, from |-> e]}
                           ELSE written
             /\ stack' = [stack EXCEPT ![Len(stack)] = Taken(e)]
    /\ UNCHANGED <<lang, outDir, srcTree, dirs, pc, walked, nWalks, created>>

\* the for loop of a walk ends: return to the caller
Return ==
    /\ pc = "walk"
    /\ Top.todo = {}
    /\ stack' = SubSeq(stack, 1, Len(stack) - 1)
    /\ pc' = IF Len(stack) = 1 THEN "done" ELSE "walk"
    /\ UNCHANGED <<lang, outDir, srcTree, dirs, files, walked, nWalks, calls, nCalls,
                   written, created, faultBudget, faultLog>>

CIdle ==
    /\ node = "none" /\ clang = <<>> /\ api_key = <<>> /\ cpc = "idle"
    /\ ver = <<>> /\ sem = <<>> /\ base = <<>> /\ refined = <<>> /\ sec = <<>>
    /\ llmCalls = <<>> /\ stages = <<>> /\ report = "none"

Init == TInit /\ CIdle

Next ==
    \/ Start /\ UNCHANGED cvars
    \/ EntryError /\ UNCHANGED cvars
    \/ SkipDir /\ UNCHANGED cvars
    \/ DescendDir /\ UNCHANGED cvars
    \/ IgnoreFile /\ UNCHANGED cvars
    \/ ConvertFile /\ UNCHANGED cvars
    \/ Return /\ UNCHANGED cvars

Spec == Init /\ [][Next]_vars

\* ------------------------------------------------------------------------
\* Claims about transpile_project
\* ------------------------------------------------------------------------
SkipNames == { DotGit, <<"t","a","r","g","e","t">>, <<"b","u","i","l","d">>,
               <<"n","o","d","e","_","m","o","d","u","l","e","s">>,
               <<"_","_","p","y","c","a","c","h","e","_","_">>,
               <<".","i","d","e","a">>, <<".","v","s","c","o","d","e">> }

Whitelist == { <<"r","s">>, <<"c","p","p">>, <<"h">>, <<"c">>, <<"p","y">>,
               <<"g","o">>, <<"t","s">>, <<"j","s">>, <<"s","w","i","f","t">> }

\* the file name is <stem>.<ext> with ext, lower-cased, in the whitelist
HasWhitelistedExt(name) ==
    \E x \in Whitelist :
        /\ Len(name) > Len(x) + 1
        /\ name[Len(name) - Len(x)] = "."
        /\ to_lowercase(SubSeq(name, Len(name) - Len(x) + 1, Len(name))) = x

\* some directory on the way from src_dir down to the entry is a skip directory
BelowSkipDir(path) == \E i \in 2..(Len(path) - 1) : path[i] \in SkipNames

\* the files of the source tree the claims expect to be converted
EligibleFiles ==
    { f \in DOMAIN srcTree.files :
        HasWhitelistedExt(Last(f)) /\ ~BelowSkipDir(f) }

\* the mirrored output path of source file f
Mirror(f) ==
    outDir \o SubSeq(f, 2, Len(f) - 1) \o <<Last(f) \o <<".">> \o mapped_ext(lang)>>

\* C1: the walk never descends into a directory whose final path segment is a
\* skip-list entry, and never calls the oracle for, or writes an output for, a
\* file whose extension (case-insensitively) is outside the whitelist; a
\* convertible file below a skip directory produces no output.
C1_SkipAndWhitelist ==
    /\ \A d \in walked : Last(d) \notin SkipNames
    /\ \A c \in calls : HasWhitelistedExt(Last(c.file)) /\ ~BelowSkipDir(c.file)
    /\ \A w \in written : HasWhitelistedExt(Last(w.from)) /\ ~BelowSkipDir(w.from)

\* a finished, failure-free run over a tree with a convertible file inside a
\* skip directory, in which some other file was converted
C1_Witness ==
    /\ pc = "done"
    /\ faultLog = {}
    /\ \E f \in DOMAIN srcTree.files : HasWhitelistedExt(Last(f)) /\ BelowSkipDir(f)
    /\ written # {}

\* failures of the two operations on the arguments themselves, before any entry
\* is read: creating out_dir and opening src_dir
RootFaults == { [op |-> "create_dir_all", path |-> outDir],
                [op |-> "read_dir", path |-> src_dir] }

\* C2: a file-system failure on one entry (an unreadable file, an unreadable or
\* uncreatable directory, a failed directory-entry read) is isolated to it: the
\* walk does not abort, and every other entry is still visited and, if
\* convertible, converted.
C2_FaultIsolation ==
    /\ pc = "panic" => faultLog \cap RootFaults # {}
    /\ pc = "done" =>
         \A f \in EligibleFiles :
            (\A x \in faultLog : ~IsPrefix(x.path, f)) => \E c \in calls : c.file = f

\* C3: after a run in which no file-system operation failed, the files written
\* are exactly one per eligible source file, at the mirrored path with the
\* name <file name>.<mapped_ext(lang)>, holding the oracle's answer for the
\* content of that file; nothing else is written.
C3_ExactOutputs ==
    (pc = "done" /\ faultLog = {}) =>
        /\ \A f \in EligibleFiles :
              \E c \in calls :
                 /\ c.file = f
                 /\ c.prompt = TranspilePrompt(lang, srcTree.files[f])
                 /\ [path |-> Mirror(f), content |-> c.answer, from |-> f] \in written
        /\ Cardinality(written) = Cardinality(EligibleFiles)

\* the relative directory paths below out_dir, and below src_dir before the run
RelDirs ==
    { SubSeq(d, Len(outDir) + 1, Len(d)) :
        d \in { x \in dirs : IsPrefix(outDir, x) /\ x # outDir } }
    \cup { SubSeq(d, 2, Len(d)) : d \in srcTree.dirs \ {src_dir} }

\* C4: after a run in which no file-system operation failed, a relative
\* directory path exists under out_dir if and only if it is a directory of the
\* source tree with no skip directory on its path.
C4_MirrorsDirectories ==
    (pc = "done" /\ faultLog = {}) =>
        \A rel \in RelDirs :
            (outDir \o rel \in dirs)
            <=> /\ src_dir \o rel \in srcTree.dirs
                /\ \A i \in 1..Len(rel) : rel[i] \notin SkipNames

\* C10: the walk visits each directory at most once and never takes a
\* directory or file created during the run as source input.
C10_NoSelfInput ==
    /\ Cardinality(walked) = nWalks
    /\ walked \cap created = {}
    /\ \A c \in calls : c.file \notin { w.path : w \in written }

\* ========================================================================
\* The per-node pipeline
\* ========================================================================
TrueText  == <<"t","r","u","e">>
FalseText == <<"f","a","l","s","e">>
UsesGenerics == <<"u","s","e","s","_","g","e","n","e","r","i","c","s">>
PointerArith == <<"p","o","i","n","t","e","r","_","a","r","i","t","h">>

\* Node { kind, meta }; text holds the identifier, operator or function name,
\* num the number, args the parameter names, kids the child nodes
MkNode(kind, text, num, args, kids, meta) ==
    [kind |-> kind, text |-> text, num |-> num, args |-> args, kids |-> kids,
     meta |-> meta]

NoMeta == [k \in {} |-> TrueText]

\* Node::new(kind)
NewNode(kind, text, num, args, kids) == MkNode(kind, text, num, args, kids, NoMeta)

Leaves == { NewNode("Identifier", <<"x">>, 0, <<>>, <<>>),
            NewNode("Number", <<>>, 1, <<>>, <<>>),
            NewNode("Unknown", <<>>, 0, <<>>, <<>>) }

Operands == { NewNode("Identifier", <<"x">>, 0, <<>>, <<>>),
              NewNode("Number", <<>>, 1, <<>>, <<>>) }

Kinds ==
    { <<n.kind, n.text, n.num, n.args, n.kids>> : n \in Leaves }
    \cup { <<"BinaryOp", <<"+">>, 0, <<>>, <<l, r>>>> : l \in Operands, r \in Operands }
    \cup { <<"Function", <<"f">>, 0, a, b>> :
             a \in { <<>>, << <<"a">> >> },
             b \in { <<>>, <<NewNode("Identifier", <<"x">>, 0, <<>>, <<>>)>> } }

Metas ==
    UNION { [K -> {TrueText, FalseText}] : K \in SUBSET {UsesGenerics, PointerArith} }

Nodes == { MkNode(k[1], k[2], k[3], k[4], k[5], m) : k \in Kinds, m \in Metas }

CompileLangs == { Go, Cpp, Swift, Zig }

ApiKeys == { <<>>, <<"s","k">> }

\* ---- RealLLM::request ----
KeyMissing == <<"(","E","R","R","O","R",":"," ","O","P","E","N","A","I","_","A","P","I","_","K","E","Y"," ","m","i","s","s","i","n","g",".",")">>
EmptyReply == <<"(","E","M","P","T","Y",")">>
ApiError(e) == <<"(","A","P","I"," ","E","R","R","O","R",":"," ">> \o e \o <<")">>

\* texts of transport errors, and message contents the service may return
ErrTexts == { <<"t","i","m","e","d"," ","o","u","t">> }
Contents == { <<"a","\"","b">>, <<"a","\n","b">>, <<"\\","n">> }

\* what request(prompt) may return with the given api_key
request(key) ==
    IF key = <<>>
    THEN { KeyMissing }
    ELSE { ApiError(e) : e \in ErrTexts } \cup Contents \cup { EmptyReply }

\* ---- VersionAI ----
VersionTable ==
    [l \in {Go, Cpp, Swift} |->
        CASE l = Go    -> << <<"1",".","2","1">> >>
          [] l = Cpp   -> << <<"2","3">> >>
          [] l = Swift -> << <<"6",".","0">> >>]

UnknownText == <<"u","n","k","n","o","w","n">>

MetaIs(meta, key, value) == key \in DOMAIN meta /\ meta[key] = value

infer_any_language(l, n) ==
    IF MetaIs(n.meta, UsesGenerics, TrueText)
    THEN <<"1",".","2","1">>
    ELSE IF l \in DOMAIN VersionTable /\ Len(VersionTable[l]) > 0
         THEN Last(VersionTable[l])
         ELSE UnknownText

infer(l, n) ==
    IF l = Go /\ MetaIs(n.meta, UsesGenerics, TrueText)
    THEN <<"1",".","2","1">>
    ELSE IF l \in DOMAIN VersionTable /\ Len(VersionTable[l]) > 0
         THEN Last(VersionTable[l])
         ELSE UnknownText

\* ---- SemanticEngine::analyze ----
analyze(n) ==
    IF n.kind = "Identifier"
    THEN <<"i","d","e","n","t","i","f","i","e","r"," ","'">> \o n.text \o <<"'">>
    ELSE UnknownText

\* ---- BaseGenerator::generate ----
Unsupported == <<"/","*"," ","u","n","s","u","p","p","o","r","t","e","d"," ","*","/">>

generate(n, l) ==
    IF n.kind = "Identifier"
    THEN CASE l = Go    -> <<"v","a","r"," ">> \o n.text \o <<" ","a","n","y">>
           [] l = Cpp   -> <<"a","u","t","o"," ">> \o n.text \o <<";">>
           [] l = Swift -> <<"v","a","r"," ">> \o n.text \o <<":"," ","A","n","y">>
           [] OTHER     -> n.text
    ELSE Unsupported

\* ---- LLMGenerator::refine: format!("Rewrite in idiomatic {} {} code:\n{}") ----
refine_prompt(l, version, code) ==
    <<"R","e","w","r","i","t","e"," ","i","n"," ","i","d","i","o","m","a","t","i","c"," ">> \o l \o <<" ">> \o version \o <<" ","c","o","d","e",":","\n">> \o code

\* ---- {:?} ----
\* <str as Debug>: one character
escape_debug_quotes_only(c) ==
    CASE c = "\"" -> <<"\\", "\"">>
      [] OTHER    -> <<c>>

escape_debug(c) ==
    CASE c = "\"" -> <<"\\", "\"">>
      [] c = "\\" -> <<"\\", "\\">>
      [] c = "\n" -> <<"\\", "n">>
      [] c = "\t" -> <<"\\", "t">>
      [] c = "\r" -> <<"\\", "r">>
      [] OTHER    -> <<c>>

RECURSIVE EscapeAll(_)
EscapeAll(s) == IF s = <<>> THEN <<>> ELSE escape_debug(Head(s)) \o EscapeAll(Tail(s))

\* <String as Debug>
DebugStr(s) == <<"\"">> \o EscapeAll(s) \o <<"\"">>

\* items joined by ", "
RECURSIVE JoinComma(_)
JoinComma(items) ==
    IF items = <<>> THEN <<>>
    ELSE IF Len(items) = 1 THEN items[1]
    ELSE items[1] \o <<",", " ">> \o JoinComma(Tail(items))

\* <Vec<String> as Debug>
DebugVecStr(v) ==
    <<"[">> \o JoinComma([i \in 1..Len(v) |-> DebugStr(v[i])]) \o <<"]">>

\* <f64 as Debug> of a small whole number
Digits == <<"0","1","2","3","4","5","6","7","8","9">>
DebugF64(x) == <<Digits[x + 1], ".", "0">>

\* <HashMap<String,String> as Debug>, entries in iteration order `order`
DebugMeta(meta, order) ==
    <<"{">>
    \o JoinComma([i \in 1..Len(order) |->
                    DebugStr(order[i]) \o <<":", " ">> \o DebugStr(meta[order[i]])])
    \o <<"}">>

\* the orders a HashMap with these keys may be iterated in
Orders(keys) ==
    { o \in UNION { [1..k -> keys] : k \in {Cardinality(keys)} } :
        \A i, j \in DOMAIN o : i # j => o[i] # o[j] }

\* #[derive(Debug)] of NodeKind and Node; children here carry no metadata
RECURSIVE DebugNode(_, _)
DebugKind(n) ==
    CASE n.kind = "Identifier" -> <<"I","d","e","n","t","i","f","i","e","r","(">> \o DebugStr(n.text) \o <<")">>
      [] n.kind = "Number"     -> <<"N","u","m","b","e","r","(">> \o DebugF64(n.num) \o <<")">>
      [] n.kind = "BinaryOp"   ->
            <<"B","i","n","a","r","y","O","p"," ","{"," ","o","p",":"," ">> \o DebugStr(n.text)
            \o <<","," ","l","e","f","t",":"," ">> \o DebugNode(n.kids[1], <<>>)
            \o <<","," ","r","i","g","h","t",":"," ">> \o DebugNode(n.kids[2], <<>>) \o <<" ","}">>
      [] n.kind = "Function"   ->
            <<"F","u","n","c","t","i","o","n"," ","{"," ","n","a","m","e",":"," ">> \o DebugStr(n.text)
            \o <<","," ","a","r","g","s",":"," ">> \o DebugVecStr(n.args)
            \o <<","," ","b","o","d","y",":"," ","[">>
            \o JoinComma([i \in 1..Len(n.kids) |-> DebugNode(n.kids[i], <<>>)])
            \o <<"]"," ","}">>
      [] OTHER                 -> <<"U","n","k","n","o","w","n">>

DebugNode(n, order) ==
    <<"N","o","d","e"," ","{"," ","k","i","n","d",":"," ">> \o DebugKind(n) \o <<","," ","m","e","t","a",":"," ">> \o DebugMeta(n.meta, order)
    \o <<" ","}">>

\* the named rules SecurityAI evaluates on the metadata before asking the
\* oracle: it has none
security_rules == {}

\* ---- SecurityAI::analyze: format!("Security check for node: {:?}", node) ----
security_prompt(n, order) == <<"S","e","c","u","r","i","t","y"," ","c","h","e","c","k"," ","f","o","r"," ","n","o","d","e",":"," ">> \o DebugNode(n, order)

\* ---- Compiler::compile_node ----
\* the statement that follows each statement of compile_node
stage_after_swapped(s) ==
    CASE s = "infer"    -> "analyze"
      [] s = "analyze"  -> "generate"
      [] s = "generate" -> "security"
      [] s = "security" -> "refine"
      [] s = "refine"   -> "format"
      [] OTHER          -> "returned"

stage_after(s) ==
    CASE s = "infer"    -> "analyze"
      [] s = "analyze"  -> "generate"
      [] s = "generate" -> "refine"
      [] s = "refine"   -> "security"
      [] s = "security" -> "format"
      [] OTHER          -> "returned"

Advance(s) ==
    /\ cpc = s
    /\ cpc' = stage_after(s)
    /\ stages' = Append(stages, s)

\* let ver = self.version_ai.infer(lang, node);
Infer ==
    /\ Advance("infer")
    /\ ver' = infer(clang, node)
    /\ UNCHANGED <<node, clang, api_key, sem, base, refined, sec, llmCalls, report>>

\* let sem = self.semantic.analyze(node);
Analyze ==
    /\ Advance("analyze")
    /\ sem' = analyze(node)
    /\ UNCHANGED <<node, clang, api_key, ver, base, refined, sec, llmCalls, report>>

\* let base = BaseGenerator.generate(node, lang);
Generate ==
    /\ Advance("generate")
    /\ base' = generate(node, clang)
    /\ UNCHANGED <<node, clang, api_key, ver, sem, refined, sec, llmCalls, report>>

\* let refined = LLMGenerator { llm }.refine(lang, &ver, &base);
Refine ==
    /\ Advance("refine")
    /\ \E answer \in request(api_key) :
         /\ refined' = answer
         /\ llmCalls' = Append(llmCalls, [stage |-> "refine",
                                          prompt |-> refine_prompt(clang, ver, base),
                                          answer |-> answer])
    /\ UNCHANGED <<node, clang, api_key, ver, sem, base, sec, report>>

\* let sec = self.security.analyze(node);
Security ==
    /\ Advance("security")
    /\ \E answer \in request(api_key), order \in Orders(DOMAIN node.meta) :
         /\ sec' = <<answer>>
         /\ llmCalls' = Append(llmCalls, [stage |-> "security",
                                          prompt |-> security_prompt(node, order),
                                          answer |-> answer])
    /\ UNCHANGED <<node, clang, api_key, ver, sem, base, refined, report>>

\* format!(...): the texts put in the six placeholders, in order
Format ==
    /\ Advance("format")
    /\ report' = [language |-> clang, version |-> ver, meaning |-> sem,
                  base |-> base, refined |-> refined, security |-> DebugVecStr(sec)]
    /\ UNCHANGED <<node, clang, api_key, ver, sem, base, refined, sec, llmCalls>>

NoReport == [language |-> <<>>, version |-> <<>>, meaning |-> <<>>,
             base |-> <<>>, refined |-> <<>>, security |-> <<>>]

CInit ==
    /\ node \in Nodes
    /\ clang \in CompileLangs
    /\ api_key \in ApiKeys
    /\ cpc = "infer"
    /\ ver = <<>> /\ sem = <<>> /\ base = <<>> /\ refined = <<>> /\ sec = <<>>
    /\ llmCalls = <<>>
    /\ stages = <<>>
    /\ report = NoReport

TIdle ==
    /\ lang = <<>> /\ outDir = <<>>
    /\ srcTree = [dirs |-> {}, files |-> <<>>]
    /\ dirs = {} /\ files = <<>> /\ stack = <<>> /\ pc = "idle"
    /\ walked = {} /\ nWalks = 0 /\ calls = {} /\ nCalls = 0
    /\ written = {} /\ created = {} /\ faultBudget = 0 /\ faultLog = {}

InitCompile == CInit /\ TIdle

NextCompile ==
    \/ Infer /\ UNCHANGED tvars
    \/ Analyze /\ UNCHANGED tvars
    \/ Generate /\ UNCHANGED tvars
    \/ Refine /\ UNCHANGED tvars
    \/ Security /\ UNCHANGED tvars
    \/ Format /\ UNCHANGED tvars

SpecCompile == InitCompile /\ [][NextCompile]_vars

\* ------------------------------------------------------------------------
\* Claims about compile_node and its stages
\* ------------------------------------------------------------------------
StageOrder == <<"infer", "analyze", "generate", "refine", "security", "format">>

\* the stage has run
Ran(s) == \E i \in 1..Len(stages) : stages[i] = s

\* reading a Debug-escaped text back
RECURSIVE Unescape(_)
Unescape(s) ==
    IF s = <<>> THEN <<>>
    ELSE IF Head(s) = "\\" /\ Len(s) >= 2
         THEN <<CASE s[2] = "n" -> "\n"
                  [] s[2] = "t" -> "\t"
                  [] s[2] = "r" -> "\r"
                  [] OTHER      -> s[2]>> \o Unescape(SubSeq(s, 3, Len(s)))
         ELSE <<Head(s)>> \o Unescape(Tail(s))

\* the characters Debug escapes
Escaped == { "\"", "\\", "\n", "\t", "\r" }

Plain(s) == \A i \in 1..Len(s) : s[i] \notin Escaped

C6_StageOrder ==
    /\ IsPrefix(stages, StageOrder)
    /\ Len(llmCalls) <= 2
    /\ cpc = "returned" => Len(llmCalls) = 2
    /\ Len(llmCalls) >= 1 =>
         /\ Ran("infer") /\ Ran("generate")
         /\ llmCalls[1].stage = "refine"
         /\ IsInfix(<<" ">> \o clang \o <<" ">> \o ver \o <<" ">>, llmCalls[1].prompt)
         /\ ver # <<>>
         /\ IsSuffix(<<"\n">> \o base, llmCalls[1].prompt)
    /\ Len(llmCalls) = 2 =>
         /\ Ran("refine")
         /\ llmCalls[2].stage = "security"

\* a returned call that crossed the oracle boundary twice
C6_Witness ==
    /\ cpc = "returned"
    /\ Len(llmCalls) = 2
    /\ llmCalls[1].answer # llmCalls[2].answer

\* C7: infer returns "unknown" for a language absent from the version table,
\* the generics-override version for "go" with uses_generics = "true" whatever
\* the other metadata, and otherwise the last entry of the language's versions;
\* the go override changes nothing for any other language.
C7_InferVersion ==
    Ran("infer") =>
        ver = CASE clang \notin DOMAIN VersionTable -> <<"u","n","k","n","o","w","n">>
                [] clang = Go /\ MetaIs(node.meta, UsesGenerics, TrueText)
                              -> <<"1",".","2","1">>
                [] OTHER      -> VersionTable[clang][Len(VersionTable[clang])]

\* infer has run on a go node flagged uses_generics among other metadata
C7_Witness ==
    /\ Ran("infer")
    /\ clang = Go
    /\ MetaIs(node.meta, UsesGenerics, TrueText)
    /\ PointerArith \in DOMAIN node.meta

\* C8: generate(BinaryOp{op, l, r}, lang) = generate(l, lang) + " " + op + " "
\* + generate(r, lang), for every language.
C8_GenerateRecursive ==
    (Ran("generate") /\ node.kind = "BinaryOp") =>
        base = generate(node.kids[1], clang) \o <<" ">> \o node.text \o <<" ">>
               \o generate(node.kids[2], clang)

\* the registered rules whose predicate is true on the node
RulesSatisfied(n) == { r \in security_rules : MetaIs(n.meta, r, TrueText) }

\* C9: analyze returns (number of registered rules satisfied) + 1 entries, the
\* last being the oracle's response to the prompt embedding the node; a node
\* whose metadata flags a risk yields more entries than one with no metadata.
C9_SecurityEntries ==
    Ran("security") =>
        /\ Len(sec) = Cardinality(RulesSatisfied(node)) + 1
        /\ sec[Len(sec)] = llmCalls[Len(llmCalls)].answer
        /\ \E order \in Orders(DOMAIN node.meta) :
              IsSuffix(DebugNode(node, order), llmCalls[Len(llmCalls)].prompt)
        /\ MetaIs(node.meta, PointerArith, TrueText) => Len(sec) > 1

====
